---- MODULE Spec2Model ----
(***************************************************************************)
(* Model of krakendca/dca.py: the DCA engine (class DCA) run against an    *)
(* exchange ledger.  One invocation of DCA.handle_dca_logic is a sequence  *)
(* of steps, one per collaborator call, so that invocations may overlap    *)
(* and the exchange may change between two calls.                          *)
(*                                                                         *)
(* Time is counted in ticks, TicksPerSecond ticks to a second.  Money and  *)
(* volumes are fixed-point integers.                                       *)
(***************************************************************************)
EXTENDS Integers, Sequences, FiniteSets, TLC

\* ------------------------------------------------------------------ bounds
TicksPerSecond == 2
MaxDays == 1
MaxDelay == 2
MaxInvocations == 2
MaxAmount == 12
MaxPrice == 12

\* --------------------------------------------------------- program constants
\* datetime.timedelta keeps (days, seconds, microseconds), 0 <= seconds < 86400
SecondsPerDay == 86400
\* the lag above which get_system_time raises
MaxLag == 1

TicksPerDay == SecondsPerDay * TicksPerSecond
HalfDay == TicksPerDay \div 2

\* Python's None and a present value v: the empty set and {v}
None == {}
Some(v) == {v}
The(s) == CHOOSE v \in s : TRUE
\* no exception
NoError == "none"

\* ------------------------------------------------------------------- the pair
\* Pair: the configured trading pair (immutable configuration).
Pair ==
    [ name |-> "XETHZEUR", alt_name |-> "ETHEUR",
      base |-> "XETH", quote |-> "ZEUR",
      lot_decimals |-> 2, quote_decimals |-> 1, order_min |-> 1 ]

\* another pair traded on the same account
OtherPair == "XXBTZEUR"

\* ---------------------------------------------------------------- utilities
\* utils.utc_unix_time_datetime: unix seconds -> datetime (here: ticks)
utc_unix_time_datetime(nix_time) == nix_time * TicksPerSecond

\* utils.current_utc_day_datetime: the local clock truncated to the UTC day
current_utc_day_datetime(local) == (local \div TicksPerDay) * TicksPerDay

\* utils.datetime_as_utc_unix: datetime -> whole unix seconds
datetime_as_utc_unix(date) == date \div TicksPerSecond

\* timedelta.seconds: the seconds field of the normalised timedelta
\* (days may be negative, 0 <= seconds < 86400, sub-second part dropped)
timedelta_seconds(delta) == (delta % TicksPerDay) \div TicksPerSecond

\* --------------------------------------------------------- DCA.get_system_time
get_system_time(kraken_time, current_date) ==
    LET kraken_date == utc_unix_time_datetime(kraken_time)
        lag == timedelta_seconds(current_date - kraken_date)
    IN  IF lag > MaxLag
        THEN [raised |-> "OSError", value |-> None]
        ELSE [raised |-> NoError, value |-> Some(current_date)]

\* --------------------------------------------------- DCA.check_account_balance
\* dict.get: the value, or None for a missing key
dict_get(d, k) == IF k \in DOMAIN d THEN Some(d[k]) ELSE None

\* float(x) guarded by `except TypeError`: None becomes 0
float_or_zero(x) == IF x = None THEN 0 ELSE The(x)

check_account_balance_le(balance, pair, amount) ==
    LET pair_base_balance == float_or_zero(dict_get(balance, pair.base))
        pair_quote_balance == float_or_zero(dict_get(balance, pair.quote))
    IN  IF pair_quote_balance <= amount
        THEN [raised |-> "ValueError", quote |-> pair_quote_balance]
        ELSE [raised |-> NoError, quote |-> pair_quote_balance]

check_account_balance(balance, pair, amount) ==
    LET pair_base_balance == float_or_zero(dict_get(balance, pair.base))
        pair_quote_balance == float_or_zero(dict_get(balance, pair.quote))
    IN  IF pair_quote_balance < amount
        THEN [raised |-> "ValueError", quote |-> pair_quote_balance]
        ELSE [raised |-> NoError, quote |-> pair_quote_balance]

\* ------------------------------------------------- DCA.extract_pair_orders
\* the sub-dictionary of the orders whose descr.pair is pair or pair_alt_name
extract_pair_orders_name_only(orders, pair, pair_alt_name) ==
    [ order_id \in { i \in DOMAIN orders : orders[i].descr.pair = pair }
        |-> orders[order_id] ]

extract_pair_orders(orders, pair, pair_alt_name) ==
    [ order_id \in { i \in DOMAIN orders :
                        \/ orders[i].descr.pair = pair
                        \/ orders[i].descr.pair = pair_alt_name }
        |-> orders[order_id] ]

\* len(dict)
len(d) == Cardinality(DOMAIN d)

\* ----------------------------------------------- DCA.count_pair_daily_orders
\* the `start` of the closed-orders query, from the local clock and the delay
start_day_unix_no_lookback(local, delay) ==
    datetime_as_utc_unix(current_utc_day_datetime(local) + (delay - 1) * TicksPerDay)

start_day_unix(local, delay) ==
    datetime_as_utc_unix(current_utc_day_datetime(local) - (delay - 1) * TicksPerDay)

\* lines 137-139: the matching open orders
daily_open_orders(open_orders, pair) ==
    len(extract_pair_orders(open_orders, pair.name, pair.alt_name))

\* lines 147-149: the matching closed orders
daily_closed_orders(closed_orders, pair) ==
    len(extract_pair_orders(closed_orders, pair.name, pair.alt_name))

count_pair_daily_orders_closed_only(open_orders, closed_orders, pair) ==
    daily_closed_orders(closed_orders, pair)

count_pair_daily_orders(open_orders, closed_orders, pair) ==
    daily_closed_orders(closed_orders, pair) + daily_open_orders(open_orders, pair)

\* ------------------------------------------------- Order.buy_limit_order
Pow10(n) == IF n = 0 THEN 1 ELSE IF n = 1 THEN 10 ELSE IF n = 2 THEN 100 ELSE 1000

\* amounts, balances and prices are integers in units of 10^-MoneyDecimals
MoneyDecimals == Pair.quote_decimals + 1

\* round(x, quote_decimals) of x given in money units: nearest, ties to even
round_price(x, quote_decimals) ==
    LET u == Pow10(MoneyDecimals - quote_decimals)
        q == x \div u
        r == x % u
    IN  IF 2 * r < u THEN q
        ELSE IF 2 * r > u THEN q + 1
        ELSE IF q % 2 = 0 THEN q ELSE q + 1

\* volume = amount / pair_price cut down to lot_decimals places, in units of
\* 10^-lot_decimals; price = pair_price rounded to quote_decimals places
buy_limit_order(date, pair, amount, pair_price, lot_decimals, quote_decimals) ==
    [ date |-> date, pair |-> pair, amount |-> amount,
      volume |-> (amount * Pow10(lot_decimals)) \div pair_price,
      pair_price |-> round_price(pair_price, quote_decimals) ]

\* ------------------------------------------------------------ the exchange
\* what the exchange reports of one order of its ledger
order_infos(o) == [ descr |-> [pair |-> o.pair], opentm |-> o.opentm,
                    closetm |-> o.closetm, status |-> o.status ]

\* ka.get_open_orders(): the reflected orders that are still open
get_open_orders(led) ==
    [ i \in { j \in DOMAIN led : led[j].status = "open" } |-> order_infos(led[i]) ]

\* ka.get_closed_orders({"start": start, "closetime": "open"}): the closed
\* orders whose close time is at or after start
get_closed_orders(led, start) ==
    [ i \in { j \in DOMAIN led : /\ led[j].status = "closed"
                                 /\ led[j].closetm >= utc_unix_time_datetime(start) }
        |-> order_infos(led[i]) ]

\* ------------------------------------------------------------------- state
VARIABLES
    now,      \* the exchange's clock, in ticks
    ledger,   \* the exchange's orders: sequence of order records
    cfg,      \* the engine's configuration (DCA.__init__)
    inv,      \* the running (or last) invocation of handle_dca_logic, per slot
    started   \* the number of invocations begun so far

vars == <<now, ledger, cfg, inv, started>>

\* handle_dca_logic may be running twice at once (two triggers close together)
Slots == {1, 2}

\* the amounts the engine may be configured with (money units)
Amounts == {500}
\* the ask prices the exchange may quote (money units per unit of base)
AskPrices == {50000, 500000}

\* offsets of the invoking host's clock from the exchange's clock, in ticks:
\* a second behind, none, just under two seconds ahead, two seconds ahead
ClockOffsets ==
    { 0 - TicksPerSecond, 0, 2 * TicksPerSecond - 1, 2 * TicksPerSecond }

\* the balance mappings ka.get_balance() may return: a currency may be missing
Balances(amount) ==
    UNION { [ ks -> {amount - 1, amount} ] : ks \in SUBSET {Pair.base, Pair.quote} }

\* an order of the exchange's ledger; `by` is the serial number of the
\* invocation that submitted it, 0 for an order placed by other means
LedgerOrder(ident, opentm, status, by) ==
    [ pair |-> ident, opentm |-> opentm, closetm |-> 0, status |-> status, by |-> by ]

\* the account's orders before the engine first runs: none, or one open
\* order of another pair, placed by other means
InitialLedgers == { <<>>, <<LedgerOrder(OtherPair, 0, "open", 0)>> }

NoFrame == [fn |-> "none"]

IdleInvocation ==
    [ pc |-> "idle", serial |-> 0, drift |-> 0, calls |-> <<>>, frame |-> NoFrame,
      current_date |-> None, counted_at |-> None, start |-> None, seen |-> {},
      count |-> None,
      pair_ask_price |-> None, order |-> None, txid |-> None,
      raised |-> NoError, outcome |-> "none" ]

Init ==
    /\ now = 0
    /\ ledger \in InitialLedgers
    /\ cfg \in [ delay : 1 .. MaxDelay, amount : Amounts,
                 pair : {Pair}, orders_filepath : {"orders.csv"} ]
    /\ inv = [ p \in Slots |-> IdleInvocation ]
    /\ started = 0

Terminal == {"returned", "raised"}
Active(p) == inv[p].pc \notin ({"idle"} \cup Terminal)

\* the local clock of invocation p
LocalClock(p) == now + inv[p].drift

\* ------------------------------------------------------------- the engine
\* the order of the calls made by handle_dca_logic and the functions it calls
next_call_persist_first(call) ==
    CASE call = "get_time" -> "get_trade_balance"
      [] call = "get_trade_balance" -> "get_balance"
      [] call = "get_balance" -> "get_open_orders"
      [] call = "get_open_orders" -> "get_closed_orders"
      [] call = "get_pair_ask_price" -> "buy_limit_order"
      [] call = "buy_limit_order" -> "save_order_csv"
      [] call = "save_order_csv" -> "send_order"
      [] OTHER -> "returned"

next_call_balance_swapped(call) ==
    CASE call = "get_time" -> "get_balance"
      [] call = "get_balance" -> "get_trade_balance"
      [] call = "get_trade_balance" -> "get_open_orders"
      [] call = "get_open_orders" -> "get_closed_orders"
      [] call = "get_pair_ask_price" -> "buy_limit_order"
      [] call = "buy_limit_order" -> "send_order"
      [] call = "send_order" -> "save_order_csv"
      [] OTHER -> "returned"

next_call_resubmit(call) ==
    CASE call = "get_time" -> "get_trade_balance"
      [] call = "get_trade_balance" -> "get_balance"
      [] call = "get_balance" -> "get_open_orders"
      [] call = "get_open_orders" -> "get_closed_orders"
      [] call = "get_pair_ask_price" -> "buy_limit_order"
      [] call = "buy_limit_order" -> "send_order"
      [] call = "send_order" -> "send_order"
      [] OTHER -> "returned"

next_call(call) ==
    CASE call = "get_time" -> "get_trade_balance"
      [] call = "get_trade_balance" -> "get_balance"
      [] call = "get_balance" -> "get_open_orders"
      [] call = "get_open_orders" -> "get_closed_orders"
      [] call = "get_pair_ask_price" -> "buy_limit_order"
      [] call = "buy_limit_order" -> "send_order"
      [] call = "send_order" -> "save_order_csv"
      [] OTHER -> "returned"

\* `if daily_pair_orders == 0:` ... `else:` of handle_dca_logic
after_count_always(daily_pair_orders) == "get_pair_ask_price"

after_count(daily_pair_orders) ==
    IF daily_pair_orders = 0 THEN "get_pair_ask_price" ELSE "returned"

\* `if order.volume < self.pair.order_min:` of send_buy_limit_order
volume_too_low_le(order, pair) == order.volume <= pair.order_min

volume_too_low(order, pair) == order.volume < pair.order_min

\* the record of invocation p after one more collaborator call
Called(p, call) == [ inv[p] EXCEPT !.calls = Append(@, call) ]

\* an exception of kind `kind` leaves handle_dca_logic: the invocation is over
Raise_and_go_on(rec, kind, frame) ==
    [ rec EXCEPT !.pc = next_call(rec.pc), !.raised = kind, !.frame = frame,
                 !.outcome = "failed" ]

Raise(rec, kind, frame) ==
    [ rec EXCEPT !.pc = "raised", !.raised = kind, !.frame = frame,
                 !.outcome = "failed" ]

\* the trigger: handle_dca_logic is entered on a host whose clock is `drift`
\* ticks ahead of the exchange's
Begin(p) ==
    /\ ~Active(p)
    /\ started < MaxInvocations
    /\ started' = started + 1
    /\ \E drift \in ClockOffsets :
         inv' = [ inv EXCEPT ![p] =
                    [ IdleInvocation EXCEPT !.pc = "get_time", !.serial = started + 1,
                                            !.drift = drift ] ]
    /\ UNCHANGED <<now, ledger, cfg>>

\* get_system_time: ka.get_time(), then the comparison with the local clock
GetTime(p) ==
    /\ inv[p].pc = "get_time"
    /\ \E ok \in BOOLEAN :
         LET kraken_time == datetime_as_utc_unix(now)
             current_date == LocalClock(p)
             r == get_system_time(kraken_time, current_date)
             frame == [ fn |-> "get_system_time", kraken_time |-> kraken_time,
                        current_date |-> current_date ]
             rec == Called(p, "get_time")
         IN  inv' = [ inv EXCEPT ![p] =
                 IF ~ok THEN Raise(rec, "ApiError", NoFrame)
                 ELSE IF r.raised # NoError THEN Raise(rec, r.raised, frame)
                 ELSE [ rec EXCEPT !.pc = next_call("get_time"), !.frame = frame,
                                   !.current_date = r.value ] ]
    /\ UNCHANGED <<now, ledger, cfg, started>>

\* check_account_balance, first call: ka.get_trade_balance() (printed only)
GetTradeBalance(p) ==
    /\ inv[p].pc = "get_trade_balance"
    /\ \E ok \in BOOLEAN :
         LET rec == Called(p, "get_trade_balance")
         IN  inv' = [ inv EXCEPT ![p] =
                 IF ~ok THEN Raise(rec, "ApiError", NoFrame)
                 ELSE [ rec EXCEPT !.pc = next_call("get_trade_balance"),
                                   !.frame = NoFrame ] ]
    /\ UNCHANGED <<now, ledger, cfg, started>>

\* check_account_balance, second call: ka.get_balance() and the funds check
GetBalance(p) ==
    /\ inv[p].pc = "get_balance"
    /\ \E ok \in BOOLEAN, balance \in Balances(cfg.amount) :
         LET r == check_account_balance(balance, cfg.pair, cfg.amount)
             frame == [ fn |-> "check_account_balance", balance |-> balance ]
             rec == Called(p, "get_balance")
         IN  inv' = [ inv EXCEPT ![p] =
                 IF ~ok THEN Raise(rec, "ApiError", NoFrame)
                 ELSE IF r.raised # NoError THEN Raise(rec, r.raised, frame)
                 ELSE [ rec EXCEPT !.pc = next_call("get_balance"), !.frame = frame ] ]
    /\ UNCHANGED <<now, ledger, cfg, started>>

\* count_pair_daily_orders, first call: ka.get_open_orders(), and what the
\* code does on its answer before it asks for the closed orders: it reads the
\* local clock and computes the start of the window (lines 142-143)
GetOpenOrders(p) ==
    /\ inv[p].pc = "get_open_orders"
    /\ \E ok \in BOOLEAN :
         LET open_orders == get_open_orders(ledger)
             start == start_day_unix(LocalClock(p), cfg.delay)
             frame == [ fn |-> "count_pair_daily_orders", open_orders |-> open_orders,
                        local |-> LocalClock(p) ]
             rec == Called(p, "get_open_orders")
         IN  inv' = [ inv EXCEPT ![p] =
                 IF ~ok THEN Raise(rec, "ApiError", NoFrame)
                 ELSE [ rec EXCEPT !.pc = next_call("get_open_orders"), !.frame = frame,
                          !.start = Some(start), !.counted_at = Some(LocalClock(p)),
                          !.seen = { i \in DOMAIN ledger : ledger[i].status # "pending" } ] ]
    /\ UNCHANGED <<now, ledger, cfg, started>>

\* count_pair_daily_orders, second call: the exchange answers
\* ka.get_closed_orders(...) for the start computed before the call; then the
\* sum, and the branch of handle_dca_logic on it
GetClosedOrders_recorded_only(p) ==
    /\ inv[p].pc = "get_closed_orders"
    /\ \E ok \in BOOLEAN :
         LET open_orders == inv[p].frame.open_orders
             start == The(inv[p].start)
             closed_orders == get_closed_orders(ledger, start)
             records == UNION { inv[q].txid : q \in { r \in Slots : inv[r].outcome = "ordered" } }
             recorded(orders) == [ i \in DOMAIN orders \cap records |-> orders[i] ]
             pair_daily_orders ==
                 count_pair_daily_orders(recorded(open_orders), recorded(closed_orders),
                                         cfg.pair)
             frame == [ fn |-> "count_pair_daily_orders", open_orders |-> open_orders,
                        closed_orders |-> closed_orders,
                        local |-> inv[p].frame.local ]
             rec == Called(p, "get_closed_orders")
             next == after_count(pair_daily_orders)
         IN  inv' = [ inv EXCEPT ![p] =
                 IF ~ok THEN Raise(rec, "ApiError", NoFrame)
                 ELSE [ rec EXCEPT !.pc = next, !.frame = frame,
                                   !.count = Some(pair_daily_orders),
                                   !.outcome = IF next = "returned"
                                               THEN "already_dca" ELSE @ ] ]
    /\ UNCHANGED <<now, ledger, cfg, started>>

GetClosedOrders(p) ==
    /\ inv[p].pc = "get_closed_orders"
    /\ \E ok \in BOOLEAN :
         LET open_orders == inv[p].frame.open_orders
             start == The(inv[p].start)
             closed_orders == get_closed_orders(ledger, start)
             pair_daily_orders ==
                 count_pair_daily_orders(open_orders, closed_orders, cfg.pair)
             frame == [ fn |-> "count_pair_daily_orders", open_orders |-> open_orders,
                        closed_orders |-> closed_orders,
                        local |-> inv[p].frame.local ]
             rec == Called(p, "get_closed_orders")
             next == after_count(pair_daily_orders)
         IN  inv' = [ inv EXCEPT ![p] =
                 IF ~ok THEN Raise(rec, "ApiError", NoFrame)
                 ELSE [ rec EXCEPT !.pc = next, !.frame = frame,
                                   !.count = Some(pair_daily_orders),
                                   !.outcome = IF next = "returned"
                                               THEN "already_dca" ELSE @ ] ]
    /\ UNCHANGED <<now, ledger, cfg, started>>

\* pair.get_pair_ask_price(ka, pair.name), the exchange quoting one of `prices`
GetPairAskPriceFrom(p, prices) ==
    /\ inv[p].pc = "get_pair_ask_price"
    /\ \E ok \in BOOLEAN, price \in prices :
         LET rec == Called(p, "get_pair_ask_price")
         IN  inv' = [ inv EXCEPT ![p] =
                 IF ~ok THEN Raise(rec, "ApiError", NoFrame)
                 ELSE [ rec EXCEPT !.pc = next_call("get_pair_ask_price"),
                                   !.frame = NoFrame,
                                   !.pair_ask_price = Some(price) ] ]
    /\ UNCHANGED <<now, ledger, cfg, started>>

GetPairAskPrice(p) == GetPairAskPriceFrom(p, AskPrices)

\* Order.buy_limit_order(...)
BuildOrder_decimals_swapped(p) ==
    /\ inv[p].pc = "buy_limit_order"
    /\ LET order == buy_limit_order(The(inv[p].current_date), cfg.pair.name, cfg.amount,
                                    The(inv[p].pair_ask_price),
                                    cfg.pair.quote_decimals, cfg.pair.lot_decimals)
           rec == Called(p, "buy_limit_order")
       IN  inv' = [ inv EXCEPT ![p] =
               [ rec EXCEPT !.pc = next_call("buy_limit_order"),
                            !.order = Some(order) ] ]
    /\ UNCHANGED <<now, ledger, cfg, started>>

BuildOrder_rewrites_amount(p) ==
    /\ inv[p].pc = "buy_limit_order"
    /\ LET order == buy_limit_order(The(inv[p].current_date), cfg.pair.name, cfg.amount,
                                    The(inv[p].pair_ask_price),
                                    cfg.pair.lot_decimals, cfg.pair.quote_decimals)
           rec == Called(p, "buy_limit_order")
       IN  /\ inv' = [ inv EXCEPT ![p] =
                 [ rec EXCEPT !.pc = next_call("buy_limit_order"),
                              !.order = Some(order) ] ]
           /\ cfg' = [ cfg EXCEPT !.amount = order.volume * The(inv[p].pair_ask_price) ]
    /\ UNCHANGED <<now, ledger, started>>

BuildOrder(p) ==
    /\ inv[p].pc = "buy_limit_order"
    /\ LET order == buy_limit_order(The(inv[p].current_date), cfg.pair.name, cfg.amount,
                                    The(inv[p].pair_ask_price),
                                    cfg.pair.lot_decimals, cfg.pair.quote_decimals)
           rec == Called(p, "buy_limit_order")
       IN  inv' = [ inv EXCEPT ![p] =
               [ rec EXCEPT !.pc = next_call("buy_limit_order"),
                            !.order = Some(order) ] ]
    /\ UNCHANGED <<now, ledger, cfg, started>>

\* send_buy_limit_order: the minimum-volume check, then order.send_order(ka)
SendBuyLimitOrder(p) ==
    /\ inv[p].pc = "send_order"
    /\ LET order == The(inv[p].order)
           rec == Called(p, "send_order")
       IN  IF volume_too_low(order, cfg.pair)
           THEN /\ inv' = [ inv EXCEPT ![p] = Raise(inv[p], "ValueError", NoFrame) ]
                /\ UNCHANGED ledger
           ELSE \/ /\ inv' = [ inv EXCEPT ![p] = Raise(rec, "ApiError", NoFrame) ]
                   /\ UNCHANGED ledger
                \/ /\ \E ident \in {cfg.pair.name, cfg.pair.alt_name} :
                        ledger' = Append(ledger, LedgerOrder(ident, now, "pending", inv[p].serial))
                   /\ inv' = [ inv EXCEPT ![p] =
                          [ rec EXCEPT !.pc = next_call("send_order"),
                                       !.txid = Some(Len(ledger) + 1) ] ]
    /\ UNCHANGED <<now, cfg, started>>

\* order.save_order_csv(orders_filepath), then the return
SaveOrderCsv(p) ==
    /\ inv[p].pc = "save_order_csv"
    /\ \E ok \in BOOLEAN :
         LET rec == Called(p, "save_order_csv")
         IN  inv' = [ inv EXCEPT ![p] =
                 IF ~ok THEN Raise(rec, "OSError", NoFrame)
                 ELSE [ rec EXCEPT !.pc = next_call("save_order_csv"),
                                   !.outcome = "ordered" ] ]
    /\ UNCHANGED <<now, ledger, cfg, started>>

\* --------------------------------------------------------- the environment
\* time passes
Tick ==
    /\ now + HalfDay <= MaxDays * TicksPerDay
    /\ now' = now + HalfDay
    /\ UNCHANGED <<ledger, cfg, inv, started>>

\* the exchange's listings come to reflect a submitted order
Reflect(i) ==
    /\ ledger[i].status = "pending"
    /\ ledger' = [ ledger EXCEPT ![i].status = "open" ]
    /\ UNCHANGED <<now, cfg, inv, started>>

\* an open order is filled, cancelled or expires
CloseOrder(i) ==
    /\ ledger[i].status = "open"
    /\ ledger' = [ ledger EXCEPT ![i].status = "closed", ![i].closetm = now ]
    /\ UNCHANGED <<now, cfg, inv, started>>

\* ------------------------------------------------------- specifications
\* the exchange's listings reflect every order submitted so far
LedgerConsistent == \A i \in DOMAIN ledger : ledger[i].status # "pending"

\* one invocation at a time, each counting on listings that reflect every
\* order submitted before
BeginAlone(p) == p = 1 /\ Begin(p)
GetOpenOrdersConsistent(p) == LedgerConsistent /\ GetOpenOrders(p)

Next ==
    \/ \E p \in Slots : BeginAlone(p)
    \/ \E p \in Slots : GetTime(p)
    \/ \E p \in Slots : GetTradeBalance(p)
    \/ \E p \in Slots : GetBalance(p)
    \/ \E p \in Slots : GetOpenOrdersConsistent(p)
    \/ \E p \in Slots : GetClosedOrders(p)
    \/ \E p \in Slots : GetPairAskPrice(p)
    \/ \E p \in Slots : BuildOrder(p)
    \/ \E p \in Slots : SendBuyLimitOrder(p)
    \/ \E p \in Slots : SaveOrderCsv(p)
    \/ Tick
    \/ \E i \in DOMAIN ledger : Reflect(i)
    \/ \E i \in DOMAIN ledger : CloseOrder(i)

Spec == Init /\ [][Next]_vars

\* two invocations overlap and the exchange's listings may lag: the second
\* invocation is triggered while the first is running
BeginOverlapping(p) == inv[p].pc = "idle" /\ (p = 2 => Active(1)) /\ Begin(p)

\* the overlapping invocations run within a day, on hosts in step with the
\* exchange's clock, with sufficient funds, and no call before the submission
\* fails
Undisturbed ==
    \A p \in Slots :
        /\ now <= TicksPerDay
        /\ inv[p].drift = 0
        /\ inv[p].pc = "raised" =>
              /\ inv[p].raised \in {"ApiError", "ValueError", "OSError"}
              /\ inv[p].calls # <<>>
              /\ inv[p].calls[Len(inv[p].calls)] \in
                    {"buy_limit_order", "send_order", "save_order_csv"}
        /\ inv[p].frame.fn = "check_account_balance" =>
              DOMAIN inv[p].frame.balance = {Pair.base, Pair.quote}

\* step A of the engine or the exchange, in such a run
Und(A) == A /\ Undisturbed'

NextOverlap ==
    \/ \E p \in Slots : Und(BeginOverlapping(p))
    \/ \E p \in Slots : Und(GetTime(p))
    \/ \E p \in Slots : Und(GetTradeBalance(p))
    \/ \E p \in Slots : Und(GetBalance(p))
    \/ \E p \in Slots : Und(GetOpenOrders(p))
    \/ \E p \in Slots : Und(GetClosedOrders(p))
    \/ \E p \in Slots : Und(GetPairAskPrice(p))
    \/ \E p \in Slots : Und(BuildOrder(p))
    \/ \E p \in Slots : Und(SendBuyLimitOrder(p))
    \/ \E p \in Slots : Und(SaveOrderCsv(p))
    \/ Und(Tick)
    \/ \E i \in DOMAIN ledger : Reflect(i)
    \/ \E i \in DOMAIN ledger : CloseOrder(i)

\* the account has no order when the first of them starts
InitOverlap == Init /\ ledger = <<>>

SpecOverlap == InitOverlap /\ [][NextOverlap]_vars

\* two invocations, the second triggered after the first has ended, each
\* counting on listings that reflect every order submitted before
BeginRerun(p) == inv[p].pc = "idle" /\ (p = 2 => inv[1].pc \in Terminal) /\ Begin(p)

NextRerun ==
    \/ \E p \in Slots : BeginRerun(p)
    \/ \E p \in Slots : GetTime(p)
    \/ \E p \in Slots : GetTradeBalance(p)
    \/ \E p \in Slots : GetBalance(p)
    \/ \E p \in Slots : GetOpenOrdersConsistent(p)
    \/ \E p \in Slots : GetClosedOrders(p)
    \/ \E p \in Slots : GetPairAskPrice(p)
    \/ \E p \in Slots : BuildOrder(p)
    \/ \E p \in Slots : SendBuyLimitOrder(p)
    \/ \E p \in Slots : SaveOrderCsv(p)
    \/ Tick
    \/ \E i \in DOMAIN ledger : Reflect(i)
    \/ \E i \in DOMAIN ledger : CloseOrder(i)

SpecRerun == InitOverlap /\ [][NextRerun]_vars

\* one invocation, every call of which returns or fails: on an account with
\* no order, or with one open order of the pair, the engine keeps on stepping
\* until the invocation is over
InitOnce ==
    /\ now = 0
    /\ ledger \in { <<>>, <<LedgerOrder(Pair.alt_name, 0, "open", 0)>> }
    /\ cfg \in [ delay : 1 .. MaxDelay, amount : Amounts,
                 pair : {Pair}, orders_filepath : {"orders.csv"} ]
    /\ inv = [ p \in Slots |-> IdleInvocation ]
    /\ started = 0

BeginOnce(p) == started = 0 /\ BeginAlone(p)

NextOnce ==
    \/ \E p \in Slots : BeginOnce(p)
    \/ \E p \in Slots : GetTime(p)
    \/ \E p \in Slots : GetTradeBalance(p)
    \/ \E p \in Slots : GetBalance(p)
    \/ \E p \in Slots : GetOpenOrders(p)
    \/ \E p \in Slots : GetClosedOrders(p)
    \/ \E p \in Slots : GetPairAskPrice(p)
    \/ \E p \in Slots : BuildOrder(p)
    \/ \E p \in Slots : SendBuyLimitOrder(p)
    \/ \E p \in Slots : SaveOrderCsv(p)

SpecOnce == InitOnce /\ [][NextOnce]_vars /\ WF_vars(NextOnce)

\* one invocation, on a host in step with the exchange, of an engine configured
\* with any amount and any precisions of the pair, at any ask price
SizingPairs ==
    { [ Pair EXCEPT !.lot_decimals = l, !.quote_decimals = q ] :
        l \in 0 .. MoneyDecimals, q \in 0 .. MoneyDecimals }

InitSizing ==
    /\ now = 0
    /\ ledger = <<>>
    /\ cfg \in [ delay : {1}, amount : 1 .. MaxAmount,
                 pair : SizingPairs, orders_filepath : {"orders.csv"} ]
    /\ inv = [ p \in Slots |-> IdleInvocation ]
    /\ started = 0

BeginSizing(p) == started = 0 /\ BeginAlone(p) /\ inv'[p].drift = 0

NextSizing ==
    \/ \E p \in Slots : BeginSizing(p)
    \/ \E p \in Slots : GetTime(p)
    \/ \E p \in Slots : GetTradeBalance(p)
    \/ \E p \in Slots : GetBalance(p)
    \/ \E p \in Slots : GetOpenOrders(p)
    \/ \E p \in Slots : GetClosedOrders(p)
    \/ \E p \in Slots : GetPairAskPriceFrom(p, 1 .. MaxPrice)
    \/ \E p \in Slots : BuildOrder(p)
    \/ \E p \in Slots : SendBuyLimitOrder(p)
    \/ \E p \in Slots : SaveOrderCsv(p)

SpecSizing == InitSizing /\ [][NextSizing]_vars

\* =================================================================== claims
\* the calls of one invocation, in the order the specification gives them
FixedOrder ==
    << "get_time", "get_trade_balance", "get_balance", "get_open_orders",
       "get_closed_orders", "get_pair_ask_price", "buy_limit_order",
       "send_order", "save_order_csv" >>

IsPrefix(s, t) == Len(s) <= Len(t) /\ \A k \in 1 .. Len(s) : s[k] = t[k]
HasCalled(p, call) == \E k \in 1 .. Len(inv[p].calls) : inv[p].calls[k] = call
LastCall(p) == inv[p].calls[Len(inv[p].calls)]
Ended(p) == inv[p].pc \in Terminal

\* start of the window of an invocation whose local clock reads t, in ticks:
\* start of the current UTC day minus (recurrence_days - 1) days
WindowStart(t, recurrence_days) ==
    (t - (t % TicksPerDay)) - (recurrence_days - 1) * TicksPerDay

\* the orders of the ledger submitted by invocations earlier than p's that lie
\* in the window p counted over
EarlierInWindow(p) ==
    { i \in DOMAIN ledger :
        /\ ledger[i].by >= 1
        /\ ledger[i].by < inv[p].serial
        /\ inv[p].counted_at # None
        /\ ledger[i].opentm >= WindowStart(The(inv[p].counted_at), cfg.delay) }

\* C1: with one invocation at a time and listings that reflect every order
\* submitted before the count, an invocation whose window already holds an
\* order submitted by an earlier invocation submits nothing.
C1_AtMostOneOrderPerWindow ==
    \A p \in Slots : EarlierInWindow(p) # {} => ~HasCalled(p, "send_order")

\* a second invocation found the first one's order in its window and ended
\* as a no-op
C1_Witness ==
    \E p \in Slots :
        /\ EarlierInWindow(p) # {}
        /\ inv[p].serial = 2
        /\ inv[p].outcome = "already_dca"

\* C2: in an invocation that reached the count check, send_order is called
\* if and only if the count is 0 and the built order's volume is at least
\* pair.order_min.
C2_SubmitIffZeroCountAndVolume ==
    \A p \in Slots :
        LET fit == /\ inv[p].count = Some(0)
                   /\ inv[p].order # None
                   /\ The(inv[p].order).volume >= cfg.pair.order_min
        IN  /\ HasCalled(p, "send_order") => fit
            /\ (Ended(p) /\ HasCalled(p, "get_open_orders") /\ fit)
                  => HasCalled(p, "send_order")

\* an invocation ended having sent an order of exactly the minimum volume
C2_Witness ==
    \E p \in Slots :
        /\ Ended(p)
        /\ HasCalled(p, "send_order")
        /\ The(inv[p].order).volume = cfg.pair.order_min

\* C3: save_order_csv is called if and only if send_order succeeded in the
\* same invocation, and after it; never on a no-op or a failed invocation.
C3_PersistIffSubmitted ==
    \A p \in Slots :
        /\ HasCalled(p, "save_order_csv") =>
              /\ inv[p].txid # None
              /\ \E j, k \in 1 .. Len(inv[p].calls) :
                    /\ j < k
                    /\ inv[p].calls[j] = "send_order"
                    /\ inv[p].calls[k] = "save_order_csv"
        /\ (Ended(p) /\ inv[p].txid # None) => HasCalled(p, "save_order_csv")
        /\ (inv[p].count # None /\ inv[p].count # Some(0))
              => ~HasCalled(p, "save_order_csv")

\* an invocation submitted, persisted and returned
C3_Witness ==
    \E p \in Slots :
        /\ inv[p].pc = "returned"
        /\ inv[p].txid # None
        /\ HasCalled(p, "save_order_csv")

\* C4: the calls of an invocation are a prefix of the fixed order, a step is
\* taken only while no earlier one has failed, and an insufficient-funds
\* failure comes before any open-order or closed-order query.
C4_FixedCallOrder ==
    \A p \in Slots :
        /\ IsPrefix(inv[p].calls, FixedOrder)
        /\ (inv[p].raised = "ValueError" /\ LastCall(p) = "get_balance") =>
              /\ ~HasCalled(p, "get_open_orders")
              /\ ~HasCalled(p, "get_closed_orders")
        /\ (inv[p].raised # NoError) => Ended(p)

\* an invocation made all nine calls and returned
C4_Witness ==
    \E p \in Slots : inv[p].calls = FixedOrder /\ inv[p].pc = "returned"

\* C5: the clock check passes, returning the local time, if and only if the
\* local time and the exchange's time differ by at most one second either
\* way; otherwise it raises.
C5_ClockPassesIffWithinOneSecond ==
    \A p \in Slots :
        inv[p].frame.fn = "get_system_time" =>
            LET d == inv[p].frame.current_date
                        - utc_unix_time_datetime(inv[p].frame.kraken_time)
                within == d <= TicksPerSecond /\ 0 - d <= TicksPerSecond
            IN  /\ within => /\ inv[p].raised = NoError
                             /\ inv[p].current_date = Some(inv[p].frame.current_date)
                /\ ~within => inv[p].raised = "OSError"

\* C6: an invocation does not submit when an order another invocation
\* submitted into its window was reflected by the listings before its count
\* check ran; so two orders in one window need a count check that ran before
\* the first order was reflected.
C6_NoSecondOrderOnceReflected ==
    \A q \in Slots :
        inv[q].txid # None =>
            \A i \in DOMAIN ledger :
                ( /\ ledger[i].by >= 1
                  /\ i < The(inv[q].txid)
                  /\ ledger[i].opentm >= WindowStart(The(inv[q].counted_at), cfg.delay) )
                => i \notin inv[q].seen

\* two overlapping invocations both submitted, the second without having
\* seen the first one's order, which lies in its window
C6_Witness ==
    /\ inv[1].txid # None
    /\ inv[2].txid # None
    /\ \E q \in Slots, i \in DOMAIN ledger :
          /\ i < The(inv[q].txid)
          /\ ledger[i].by >= 1
          /\ ledger[i].opentm >= WindowStart(The(inv[q].counted_at), cfg.delay)
          /\ i \notin inv[q].seen

Prefix(n) == SubSeq(FixedOrder, 1, n)

\* an order submitted by an invocation earlier than p's lies, reflected, in
\* the window of the local clock of p
ReinvokedInWindow(p) ==
    \E i \in DOMAIN ledger :
        /\ ledger[i].by >= 1
        /\ ledger[i].by < inv[p].serial
        /\ ledger[i].status # "pending"
        /\ ledger[i].opentm >= WindowStart(LocalClock(p), cfg.delay)

\* C7 as stated: a nonzero count gives a no-op that returns normally, and so
\* an invocation made in the window of an accepted order ends without error
\* and without a second order (here: on a host in step with the exchange and
\* with no collaborator call failing).
C7_ReinvocationEndsWithoutError ==
    \A p \in Slots :
        ( /\ Ended(p)
          /\ ReinvokedInWindow(p)
          /\ inv[p].drift = 0
          /\ inv[p].raised # "ApiError"
          /\ ~(inv[p].raised = "OSError" /\ LastCall(p) = "save_order_csv") )
        => inv[p].raised = NoError /\ inv[p].txid = None

\* C7 as amended: a nonzero count gives a no-op that returns normally after
\* the five calls up to the count, with no price fetch, order, submission or
\* persistence; and an invocation that gets as far as the count in the window
\* of an accepted order counts it, so it ends that way.
C7_NonzeroCountIsNoOp ==
    \A p \in Slots :
        /\ (inv[p].count # None /\ inv[p].count # Some(0)) =>
              /\ inv[p].pc = "returned"
              /\ inv[p].raised = NoError
              /\ inv[p].calls = Prefix(5)
              /\ inv[p].pair_ask_price = None
              /\ inv[p].order = None
              /\ inv[p].txid = None
        /\ (inv[p].count # None /\ EarlierInWindow(p) # {}) => inv[p].count # Some(0)

\* a second invocation counted the first one's order and returned normally
C7_Witness ==
    \E p \in Slots :
        /\ inv[p].serial = 2
        /\ EarlierInWindow(p) # {}
        /\ inv[p].count # None /\ inv[p].count # Some(0)
        /\ inv[p].pc = "returned"

\* C8: a failure ends the invocation with the failing step's call as its
\* last: clock skew after get_time alone, insufficient funds after the
\* balance query, an order too small before send_order, a failed submission
\* before save_order_csv.
C8_FailureAborts ==
    \A p \in Slots :
        /\ inv[p].raised # NoError => Ended(p)
        /\ (inv[p].raised # NoError /\ inv[p].frame.fn = "get_system_time")
              => inv[p].calls = Prefix(1)
        /\ inv[p].raised = "OSError" => inv[p].calls \in {Prefix(1), Prefix(9)}
        /\ inv[p].raised = "ValueError" => inv[p].calls \in {Prefix(3), Prefix(7)}
        /\ (inv[p].raised = "ApiError" /\ HasCalled(p, "send_order"))
              => inv[p].calls = Prefix(8)

\* an invocation ended on a clock two seconds ahead, having called get_time
\* only
C8_Witness ==
    \E p \in Slots :
        /\ inv[p].raised = "OSError"
        /\ inv[p].drift = 2 * TicksPerSecond
        /\ inv[p].calls = <<"get_time">>

\* the balance of currency k in a mapping, 0 if the mapping omits it
BalanceOf(balance, k) == IF k \in DOMAIN balance THEN balance[k] ELSE 0

\* C9: the balance check fails with the insufficient-funds error if the
\* quote balance is below the amount and passes otherwise; a currency the
\* mapping omits counts as 0, and no other error comes of it.
C9_BalanceCheck ==
    \A p \in Slots :
        inv[p].frame.fn = "check_account_balance" =>
            LET quote == BalanceOf(inv[p].frame.balance, cfg.pair.quote)
            IN  /\ quote < cfg.amount =>
                      inv[p].raised = "ValueError" /\ inv[p].pc = "raised"
                /\ quote >= cfg.amount =>
                      inv[p].raised = NoError /\ inv[p].pc = "get_open_orders"

\* a mapping without the quote currency made the check fail, as a balance of
\* 0 does
C9_Witness ==
    \E p \in Slots :
        /\ inv[p].frame.fn = "check_account_balance"
        /\ cfg.pair.quote \notin DOMAIN inv[p].frame.balance
        /\ inv[p].raised = "ValueError"

\* the orders of a listing whose pair is the configured one, under either name
Matching(orders) ==
    { i \in DOMAIN orders : orders[i].descr.pair \in {cfg.pair.name, cfg.pair.alt_name} }

\* C10: the count is the number of returned open orders of the pair plus the
\* number of returned closed orders of the pair, under either of its names,
\* and the closed orders are asked for from the start of the current UTC day
\* minus (recurrence_days - 1) days.
C10_CountOfPairOrders ==
    \A p \in Slots :
        ( /\ inv[p].frame.fn = "count_pair_daily_orders"
          /\ "closed_orders" \in DOMAIN inv[p].frame )
        => /\ inv[p].count =
                Some(Cardinality(Matching(inv[p].frame.open_orders))
                       + Cardinality(Matching(inv[p].frame.closed_orders)))
           /\ utc_unix_time_datetime(The(inv[p].start))
                = WindowStart(inv[p].frame.local, cfg.delay)

\* a count of one: a closed order under the alternative name, next to an open
\* order of another pair
C10_Witness ==
    \E p \in Slots :
        /\ inv[p].frame.fn = "count_pair_daily_orders"
        /\ "closed_orders" \in DOMAIN inv[p].frame
        /\ inv[p].count = Some(1)
        /\ \E i \in DOMAIN inv[p].frame.open_orders :
              inv[p].frame.open_orders[i].descr.pair \notin {cfg.pair.name, cfg.pair.alt_name}
        /\ \E i \in DOMAIN inv[p].frame.closed_orders :
              inv[p].frame.closed_orders[i].descr.pair = cfg.pair.alt_name

\* the start of the UTC day of time t, in ticks
DayStart(t) == t - (t % TicksPerDay)

\* the orders of the ledger submitted by the engine before the order that
\* invocation p submitted
AcceptedBefore(p) ==
    { i \in DOMAIN ledger : ledger[i].by >= 1 /\ i < The(inv[p].txid) }

\* C11 as stated: with one invocation at a time and consistent listings, any
\* two orders the engine submitted have submission times at least
\* recurrence_days days apart.
C11_OrdersRecurrenceDaysApart ==
    \A i, j \in DOMAIN ledger :
        (i < j /\ ledger[i].by >= 1 /\ ledger[j].by >= 1)
        => ledger[j].opentm - ledger[i].opentm >= cfg.delay * TicksPerDay

\* C11 as amended: the UTC day (by the invoking host's clock) of the
\* invocation that submits a later order is at least recurrence_days calendar
\* days after the UTC day of every earlier accepted order, which therefore
\* lies before that invocation's window.
C11_OrdersRecurrenceCalendarDaysApart ==
    \A p \in Slots :
        inv[p].txid # None =>
            \A i \in AcceptedBefore(p) :
                /\ ledger[i].opentm < WindowStart(The(inv[p].counted_at), cfg.delay)
                /\ DayStart(The(inv[p].counted_at)) - DayStart(ledger[i].opentm)
                      >= cfg.delay * TicksPerDay

\* two accepted orders less than recurrence_days days apart: the earlier one
\* was closed the day before the later one's invocation
C11_Witness ==
    \E p \in Slots :
        /\ inv[p].txid # None
        /\ \E i \in AcceptedBefore(p) :
              /\ ledger[i].status = "closed"
              /\ ledger[The(inv[p].txid)].opentm - ledger[i].opentm
                    < cfg.delay * TicksPerDay

\* why a failed invocation failed, from the step it failed in
Cause(p) ==
    IF inv[p].frame.fn = "get_system_time" THEN "clock_skew"
    ELSE IF inv[p].frame.fn = "check_account_balance" THEN "insufficient_funds"
    ELSE IF inv[p].calls = Prefix(7) THEN "order_too_small"
    ELSE IF inv[p].calls = Prefix(8) THEN "submission_failure"
    ELSE "other"

\* the kind of error the clock check raises on a host two seconds ahead
ClockSkewKind == get_system_time(0, 2 * TicksPerSecond).raised

\* the kind of error the balance check raises on an account without funds
InsufficientFundsKind ==
    check_account_balance([k \in {} |-> 0], cfg.pair, cfg.amount).raised

\* C12: the errors for clock skew, insufficient funds, order too small and
\* submission failure are pairwise of different kinds, and an invocation that
\* failed has not returned normally.
C12_FailureKindsDistinct ==
    \A p \in Slots :
        inv[p].raised # NoError =>
            /\ inv[p].pc = "raised"
            /\ Cause(p) = "clock_skew" => inv[p].raised = ClockSkewKind
            /\ Cause(p) = "insufficient_funds" =>
                  /\ inv[p].raised = InsufficientFundsKind
                  /\ inv[p].raised # ClockSkewKind
            /\ Cause(p) = "order_too_small" =>
                  inv[p].raised \notin {ClockSkewKind, InsufficientFundsKind}
            /\ Cause(p) = "submission_failure" =>
                  inv[p].raised \notin {ClockSkewKind, InsufficientFundsKind}

\* the number of times invocation p called `call`
TimesCalled(p, call) ==
    Cardinality({ k \in 1 .. Len(inv[p].calls) : inv[p].calls[k] = call })

\* the orders of the ledger that invocation p submitted
SubmittedBy(p) ==
    { i \in DOMAIN ledger : inv[p].serial >= 1 /\ ledger[i].by = inv[p].serial }

\* C13: an invocation calls send_order at most once and has at most one order
\* in the ledger; when the order is below the minimum or send_order fails, the
\* invocation is over with no order in the ledger, no second attempt, and the
\* order as it was built.
C13_AtMostOneSubmission ==
    \A p \in Slots :
        /\ TimesCalled(p, "send_order") <= 1
        /\ Cardinality(SubmittedBy(p)) <= 1
        /\ (inv[p].raised # NoError /\ inv[p].calls \in {Prefix(7), Prefix(8)}) =>
              /\ inv[p].pc = "raised"
              /\ inv[p].txid = None
              /\ SubmittedBy(p) = {}
              /\ ~HasCalled(p, "save_order_csv")
              /\ inv[p].order =
                    Some(buy_limit_order(The(inv[p].current_date), cfg.pair.name,
                                         cfg.amount, The(inv[p].pair_ask_price),
                                         cfg.pair.lot_decimals, cfg.pair.quote_decimals))

\* a submission call failed and the invocation ended there
C13_Witness ==
    \E p \in Slots :
        /\ inv[p].raised = "ApiError"
        /\ inv[p].calls = Prefix(8)
        /\ inv[p].pc = "raised"
        /\ SubmittedBy(p) = {}

\* money units in one unit of a price given to quote_decimals places
PriceUnit(quote_decimals) == Pow10(MoneyDecimals - quote_decimals)

\* the built order's volume is amount / ask price cut down to lot_decimals
\* places: the largest volume whose cost at the ask price is within the amount
VolumeIsFloor(order, amount, ask, lot_decimals) ==
    /\ order.volume * ask <= amount * Pow10(lot_decimals)
    /\ (order.volume + 1) * ask > amount * Pow10(lot_decimals)

\* the built order's limit price is the ask price rounded to quote_decimals
\* places: the nearest price of that precision
PriceIsRounded(order, ask, quote_decimals) ==
    LET u == PriceUnit(quote_decimals)
    IN  /\ 2 * (order.pair_price * u - ask) <= u
        /\ 2 * (ask - order.pair_price * u) <= u

\* C14 as stated: the built order has volume = amount / ask price cut down to
\* lot_decimals places, a limit price that is the ask price rounded to
\* quote_decimals places, and volume x limit price never exceeds the amount.
C14_CommittedWithinAmount ==
    \A p \in Slots :
        inv[p].order # None =>
            LET order == The(inv[p].order)
                ask == The(inv[p].pair_ask_price)
            IN  /\ VolumeIsFloor(order, cfg.amount, ask, cfg.pair.lot_decimals)
                /\ PriceIsRounded(order, ask, cfg.pair.quote_decimals)
                /\ order.volume * order.pair_price * PriceUnit(cfg.pair.quote_decimals)
                      <= cfg.amount * Pow10(cfg.pair.lot_decimals)

\* C14 as amended: the built order has volume = amount / ask price cut down
\* to lot_decimals places, so volume x ask price never exceeds the amount; the
\* limit price is the ask price rounded to quote_decimals places, and
\* volume x limit price exceeds the amount by at most volume x half a unit of
\* that precision.
C14_VolumeIsFloorOfAmountOverAsk ==
    \A p \in Slots :
        inv[p].order # None =>
            LET order == The(inv[p].order)
                ask == The(inv[p].pair_ask_price)
                u == PriceUnit(cfg.pair.quote_decimals)
            IN  /\ VolumeIsFloor(order, cfg.amount, ask, cfg.pair.lot_decimals)
                /\ PriceIsRounded(order, ask, cfg.pair.quote_decimals)
                /\ 2 * order.volume * order.pair_price * u
                      <= 2 * cfg.amount * Pow10(cfg.pair.lot_decimals) + order.volume * u

\* an order was built whose limit price was rounded up and whose volume x
\* limit price is above the amount
C14_Witness ==
    \E p \in Slots :
        /\ inv[p].order # None
        /\ The(inv[p].order).volume >= 1
        /\ The(inv[p].order).pair_price * PriceUnit(cfg.pair.quote_decimals)
              > The(inv[p].pair_ask_price)
        /\ The(inv[p].order).volume * The(inv[p].order).pair_price
                * PriceUnit(cfg.pair.quote_decimals)
              > cfg.amount * Pow10(cfg.pair.lot_decimals)

\* the orders of the ledger for the configured pair, under either name, that
\* invocation p did not submit itself
OthersMatching(p) ==
    { i \in DOMAIN ledger :
        /\ ledger[i].pair \in {cfg.pair.name, cfg.pair.alt_name}
        /\ i \notin SubmittedBy(p) }

\* C15: with one invocation at a time and consistent listings, an invocation
\* that has counted while an order of the pair is open on the exchange is a
\* no-op, however old that order is and whatever recurrence_days is; and an
\* invocation counts zero, and so may submit, only if every order of the pair
\* is closed, and was closed before the start of its window.
C15_OpenOrderBlocksSubmission ==
    \A p \in Slots :
        /\ ( /\ inv[p].count # None
             /\ \E i \in OthersMatching(p) : ledger[i].status = "open" )
           => /\ inv[p].count # Some(0)
              /\ inv[p].outcome = "already_dca"
              /\ inv[p].pc = "returned"
              /\ ~HasCalled(p, "send_order")
        /\ inv[p].count = Some(0) =>
              \A i \in OthersMatching(p) :
                  /\ ledger[i].status = "closed"
                  /\ ledger[i].closetm < WindowStart(The(inv[p].counted_at), cfg.delay)

\* a no-op on an open order of the pair that was placed before the window of
\* the invocation began
C15_Witness ==
    \E p \in Slots :
        /\ inv[p].outcome = "already_dca"
        /\ \E i \in OthersMatching(p) :
              /\ ledger[i].status = "open"
              /\ ledger[i].opentm < WindowStart(The(inv[p].counted_at), cfg.delay)

\* the first invocation submitted an order that lies in the window the second
\* counted over, and its write to the orders file failed
UnrecordedInWindow ==
    /\ inv[1].txid # None
    /\ inv[1].raised = "OSError"
    /\ inv[1].calls = Prefix(9)
    /\ inv[2].counted_at # None
    /\ ledger[The(inv[1].txid)].opentm
          >= WindowStart(The(inv[2].counted_at), cfg.delay)

\* C16: with one invocation after the other and consistent listings, when the
\* first invocation submitted an order but failed to write it to the orders
\* file, a second invocation that has counted with that order in its window
\* has counted it and ends as a no-op, submitting nothing.
C16_UnrecordedOrderStillCounts ==
    (UnrecordedInWindow /\ inv[2].count # None)
    => /\ inv[2].count # Some(0)
       /\ inv[2].outcome = "already_dca"
       /\ ~HasCalled(2, "send_order")
       /\ SubmittedBy(2) = {}

\* the second invocation was a no-op on the order of the first, whose write
\* to the orders file had failed
C16_Witness ==
    /\ UnrecordedInWindow
    /\ inv[2].outcome = "already_dca"
    /\ inv[2].pc = "returned"

\* a step of invocation p that submits: it appends one order of p to the
\* ledger and leaves the orders already there as they were
SubmissionStep(p) ==
    /\ inv[p].pc = "send_order"
    /\ Len(ledger') = Len(ledger) + 1
    /\ SubSeq(ledger', 1, Len(ledger)) = ledger
    /\ ledger'[Len(ledger')].by = inv[p].serial
    /\ SubmittedBy(p) = {}

\* C17: no step changes the configuration (pair, delay, amount,
\* orders_filepath); a step of an invocation that changes the ledger is its
\* one submission; the clock, balance and count steps leave the ledger as it
\* is.
C17_ConfigurationAndLedgerFrame ==
    [][ /\ cfg' = cfg
        /\ (inv' # inv /\ ledger' # ledger) => \E p \in Slots : SubmissionStep(p)
        /\ \A p \in Slots :
              inv[p].pc \in { "get_time", "get_trade_balance", "get_balance",
                              "get_open_orders", "get_closed_orders" }
                 /\ inv'[p] # inv[p]
              => ledger' = ledger
      ]_vars

\* an invocation ran to its end having added its one order to a ledger whose
\* earlier order is as it was
C17_Witness ==
    \E p \in Slots :
        /\ inv[p].outcome = "ordered"
        /\ Cardinality(SubmittedBy(p)) = 1
        /\ Len(ledger) = 2
        /\ ledger[1] = LedgerOrder(OtherPair, 0, "open", 0)

\* the outcomes the specification lists for an invocation
ListedOutcomes ==
    { "submitted_and_persisted", "no_op", "clock_skew", "insufficient_funds",
      "order_too_small", "submission_failure", "persistence_failure" }

\* does the outcome o describe how invocation p ended?
IsOutcome(p, o) ==
    CASE o = "submitted_and_persisted" ->
            inv[p].pc = "returned" /\ inv[p].txid # None /\ inv[p].calls = Prefix(9)
      [] o = "no_op" ->
            inv[p].pc = "returned" /\ inv[p].count \notin {None, Some(0)}
      [] o = "clock_skew" ->
            inv[p].pc = "raised" /\ inv[p].raised = "OSError"
                /\ inv[p].calls = Prefix(1)
      [] o = "insufficient_funds" ->
            inv[p].pc = "raised" /\ inv[p].raised = "ValueError"
                /\ inv[p].calls = Prefix(3)
      [] o = "order_too_small" ->
            inv[p].pc = "raised" /\ inv[p].raised = "ValueError"
                /\ inv[p].calls = Prefix(7)
      [] o = "submission_failure" ->
            inv[p].pc = "raised" /\ inv[p].raised = "ApiError"
                /\ inv[p].calls = Prefix(8)
      [] o = "persistence_failure" ->
            inv[p].pc = "raised" /\ inv[p].raised = "OSError"
                /\ inv[p].calls = Prefix(9)
      [] o = "query_failure" ->
            inv[p].pc = "raised" /\ inv[p].raised = "ApiError"
                /\ Len(inv[p].calls) <= 6
      [] OTHER -> FALSE

OutcomesOf(p, outcomes) == { o \in outcomes : IsOutcome(p, o) }

\* C18 as stated: an invocation that is over ended in exactly one of the
\* listed outcomes: submitted and persisted, no-op, or a failure by clock
\* skew, insufficient funds, order too small, submission or persistence.
C18_EndsInOneListedOutcome ==
    \A p \in Slots :
        Ended(p) => Cardinality(OutcomesOf(p, ListedOutcomes)) = 1

\* C18 as amended: provided every call returns or fails, an invocation makes
\* each call at most once, is eventually over, stays over, and then has
\* exactly one outcome: one of the listed ones, or the failure of a query call
\* (server time, balances, order listings, ask price).
C18_TerminatesInOneOutcome ==
    /\ [](\A p \in Slots :
            /\ \A k \in 1 .. Len(FixedOrder) : TimesCalled(p, FixedOrder[k]) <= 1
            /\ Ended(p) =>
                  Cardinality(OutcomesOf(p, ListedOutcomes \cup {"query_failure"})) = 1
            /\ ~Ended(p) =>
                  OutcomesOf(p, ListedOutcomes \cup {"query_failure"}) = {})
    /\ \A p \in Slots : Active(p) ~> Ended(p)
    /\ [][\A p \in Slots : Ended(p) => inv'[p] = inv[p]]_vars

\* an invocation ended on the failure of the ask-price query
C18_Witness ==
    \E p \in Slots :
        /\ inv[p].pc = "raised"
        /\ inv[p].raised = "ApiError"
        /\ inv[p].calls = Prefix(6)
        /\ OutcomesOf(p, ListedOutcomes) = {}

====
